---- MODULE Spec2Model ----
(***************************************************************************)
(* Model of the ajv-ts builder core (src/src/builder.ts, second snapshot,  *)
(* lines 1821-4141): the schema builders, their JSON-Schema fragments kept *)
(* on a heap of shared references, the parse pipeline                      *)
(* (preprocess -> engine -> postprocess -> refine) and the validation      *)
(* engine with its cache of compiled validators keyed by fragment identity.*)
(***************************************************************************)
EXTENDS Integers, Sequences, FiniteSets, TLC

VARIABLES
  builders,   \* heap of SchemaBuilder instances (a sequence, index = identity)
  frags,      \* heap of schema fragments (`_schema` objects)
  propsHeap,  \* heap of `properties` maps
  reqHeap,    \* heap of `required` arrays
  defHeap,    \* heap of object definition maps (`def`)
  compiled,   \* the engine's cache: fragment identity -> compiled validator
  last,       \* the most recent safeParse / validate / parse call
  prev,       \* the safeParse call before it (same builder, same input)
  hist        \* the most recent structural call and the receiver before it

vars == <<builders, frags, propsHeap, reqHeap, defHeap, compiled, last, prev, hist>>

(***************************************************************************)
(* Bounds                                                                  *)
(***************************************************************************)
\* total number of functions registered on the outer builder
MaxFns == 3
\* number of builders on the heap in the object specification
MaxBuilders == 5
\* number of `required` arrays on the heap
MaxReqs == 1

(***************************************************************************)
(* JavaScript values                                                       *)
(***************************************************************************)
Keys == {"x", "y"}

\* 0, 1, 2, "a", null, undefined
Prims == {"n0", "n1", "n2", "sa", "null", "undef"}

NoProps == [key \in Keys |-> "absent"]

\* a primitive value
V(p) == [k |-> p, o |-> NoProps]

\* a plain object with the given property values ("absent" = no such key)
Obj(px, py) == [k |-> "obj", o |-> [key \in Keys |-> IF key = "x" THEN px ELSE py]]

Undefined == V("undef")
Null == V("null")
Absent == V("absent")

\* Error objects and other thrown values.  kind "undefined" is the value
\* `undefined` used as an exception; "absent" is no error at all.
Err(kind, message, cause) == [kind |-> kind, message |-> message, cause |-> cause]
NoErr == Err("absent", "", "none")
ThrownUndefined == Err("undefined", "", "none")

IsNullish(e) == e.kind \in {"undefined", "null"}

(***************************************************************************)
(* User functions, by behaviour                                            *)
(***************************************************************************)
PreFnSet == {"inc", "throwErr", "throwUndef"}
PostFnSet == {"inc", "toStr"}
RefineFnSet == {"nonZero", "throwErr", "throwUndef"}

Inc(v) ==
  IF v.k = "n0" THEN V("n1")
  ELSE IF v.k = "n1" THEN V("n2")
  ELSE IF v.k = "n2" THEN V("n0")
  ELSE v

Returned(v) == [thrown |-> FALSE, val |-> v, err |-> NoErr]
Threw(e) == [thrown |-> TRUE, val |-> Absent, err |-> e]

\* fn(v): what the call returns or throws
Apply(fn, v) ==
  CASE fn = "inc" -> Returned(Inc(v))
    [] fn = "toStr" -> Returned(V("sa"))
    [] fn = "nonZero" -> IF v.k = "n0" THEN Returned(Undefined) ELSE Returned(V("sa"))
    [] fn = "throwErr" -> Threw(Err("Error", "boom", "none"))
    [] fn = "throwUndef" -> Threw(ThrownUndefined)
    [] OTHER -> Threw(Err("TypeError", "fn is not a function", "none"))

(***************************************************************************)
(* Schema fragments                                                        *)
(***************************************************************************)
JSONTypes == {"number", "integer", "string", "boolean", "null", "object", "array"}

\* `{}`: `type` absent is <<>> with typeArr FALSE; a string type is a
\* one-element sequence with typeArr FALSE; 0 is "no reference".
EmptyFrag ==
  [type |-> <<>>, typeArr |-> FALSE, nullable |-> FALSE,
   props |-> 0, required |-> 0, addl |-> "absent", addlSchema |-> 0, depReq |-> "absent",
   hasEnum |-> FALSE, enum |-> {}, const |-> "absent",
   anyOf |-> <<>>, allOf |-> <<>>, not |-> 0,
   itemsKind |-> "absent", items |-> <<>>, prefixItems |-> <<>>, addlItems |-> "absent",
   minItems |-> <<>>, maxItems |-> <<>>]

TypedFrag(t) == [EmptyFrag EXCEPT !.type = <<t>>]

\* [...new Set(arr)]: first occurrences, in order
RECURSIVE Dedup(_)
Dedup(s) ==
  IF s = <<>> THEN <<>>
  ELSE LET front == Dedup(SubSeq(s, 1, Len(s) - 1))
           x == s[Len(s)]
       IN IF \E i \in 1..Len(front) : front[i] = x THEN front ELSE Append(front, x)

SeqRange(s) == {s[i] : i \in 1..Len(s)}

\* the `type` written by nullable(); an absent type is the element `undefined`
NullableType(f) ==
  IF f.typeArr THEN Dedup(Append(f.type, "null"))
  ELSE Dedup(<<IF f.type = <<>> THEN "undefined" ELSE f.type[1], "null">>)

(***************************************************************************)
(* The validation engine (Ajv), through compile(schema) and validateFn(x)  *)
(***************************************************************************)
ObjPropVals == {"absent", "n1", "sa"}
Universe == {V(p) : p \in Prims} \cup {Obj(px, py) : px, py \in ObjPropVals}

HasType(v, t) ==
  CASE v.k \in {"n0", "n1", "n2"} -> t \in {"number", "integer"}
    [] v.k = "sa" -> t = "string"
    [] v.k = "null" -> t = "null"
    [] v.k = "obj" -> t = "object"
    [] OTHER -> FALSE

\* the fragments a fragment refers to
Children(f) ==
  SeqRange(f.anyOf) \cup SeqRange(f.allOf) \cup SeqRange(f.items) \cup SeqRange(f.prefixItems)
    \cup (IF f.not = 0 THEN {} ELSE {f.not})
    \cup (IF f.addlSchema = 0 THEN {} ELSE {f.addlSchema})
    \cup (IF f.props = 0 THEN {} ELSE {propsHeap[f.props][key] : key \in Keys} \ {0})

\* compile(schema) throws on a schema that is not valid JSON Schema
RECURSIVE CompileOK(_)
CompileOK(id) ==
  LET f == frags[id] IN
    /\ \A t \in SeqRange(f.type) : t \in JSONTypes
    /\ \A c \in Children(f) : CompileOK(c)

RECURSIVE Accepts(_, _)
Accepts(id, v) ==
  LET f == frags[id] IN
    /\ f.type # <<>> => \E t \in SeqRange(f.type) : HasType(v, t)
    /\ f.hasEnum => v.k \in f.enum
    /\ f.const # "absent" => v.k = f.const
    /\ f.anyOf # <<>> => \E c \in SeqRange(f.anyOf) : Accepts(c, v)
    /\ \A c \in SeqRange(f.allOf) : Accepts(c, v)
    /\ f.not # 0 => ~Accepts(f.not, v)
    /\ v.k = "obj" =>
         /\ f.props # 0 =>
              \A key \in Keys :
                (propsHeap[f.props][key] # 0 /\ v.o[key] # "absent")
                  => Accepts(propsHeap[f.props][key], V(v.o[key]))
         /\ f.required # 0 =>
              \A key \in SeqRange(reqHeap[f.required]) : v.o[key] # "absent"
         /\ f.addl = "false" =>
              \A key \in Keys :
                v.o[key] # "absent" => (f.props # 0 /\ propsHeap[f.props][key] # 0)
         /\ f.addl = "schema" =>
              \A key \in Keys :
                (v.o[key] # "absent" /\ ~(f.props # 0 /\ propsHeap[f.props][key] # 0))
                  => Accepts(f.addlSchema, V(v.o[key]))
         /\ f.depReq # "absent" =>
              (v.o[f.depReq] # "absent" => \A key \in Keys : v.o[key] # "absent")

\* an entry of the engine's cache, which is keyed by the fragment object:
\* `seen` once compile() was given the object, `has` once a validator was built
NotCompiled == [has |-> FALSE, seen |-> FALSE, accepts |-> {}]

\* the validator compile() builds from the fragment as it is now
Validator(id) ==
  [has |-> TRUE, seen |-> TRUE, accepts |-> {v \in Universe : Accepts(id, v)}]

\* ajv.compile(schema): the cached validator when the fragment object was
\* compiled before, else a new one, which is cached. The engine enters the
\* object in its cache before it checks it against the meta-schema, so an
\* object seen before is not checked again and fails in code generation
Compile(id, cache) ==
  IF cache[id].has THEN [ok |-> TRUE, fn |-> cache[id], msg |-> "", cache |-> cache]
  ELSE IF CompileOK(id)
    THEN [ok |-> TRUE, fn |-> Validator(id), msg |-> "",
          cache |-> [cache EXCEPT ![id] = Validator(id)]]
    ELSE [ok |-> FALSE, fn |-> NotCompiled,
          msg |-> IF cache[id].seen THEN "type must be JSONType or JSONType[]"
                  ELSE "schema is invalid",
          cache |-> [cache EXCEPT ![id].seen = TRUE]]

(***************************************************************************)
(* Parse results                                                           *)
(***************************************************************************)
\* `keys` are the keys the result object has among data / error
Success(data, input) ==
  [success |-> TRUE, keys |-> {"data"}, data |-> data, error |-> NoErr, input |-> input]
Failure(error, input) ==
  [success |-> FALSE, keys |-> {"error"}, data |-> Absent, error |-> error, input |-> input]
NoResult ==
  [success |-> FALSE, keys |-> {}, data |-> Absent, error |-> NoErr, input |-> Absent]

\* one step of a call: a user function applied, the engine asked, or the
\* safeParse of a postprocess target returning into builder b
Event(stage, b, fn, arg, out, ok) ==
  [stage |-> stage, b |-> b, fn |-> fn, arg |-> arg, out |-> out, ok |-> ok]

\* an element of preFns is the function itself, one of postFns is {fn, schema}
PreEl(fn) == [fn |-> fn, schema |-> 0]
\* mutation: postprocess keeps the function and drops its target schema
PostElNoTarget(fn, target) == [fn |-> fn, schema |-> 0]

PostEl(fn, target) == [fn |-> fn, schema |-> target]

TypeErr == Err("TypeError", "Cannot read properties of undefined", "none")

\* new Error((e as Error).message, {cause: e}) in a catch block: reading
\* .message of null or undefined throws a TypeError out of the catch
WrapCaught(e) ==
  IF IsNullish(e) THEN Threw(TypeErr)
  ELSE [thrown |-> FALSE, val |-> Absent, err |-> Err("Error", e.message, "thrown")]

RECURSIVE SafeParseOf(_, _, _)
RECURSIVE ReduceFrom(_, _, _, _, _, _, _)

\* the steps of a nested el.schema.safeParse(fnTransform) and its return
NestedLog(b, val, n, log1) ==
  Append(log1 \o n.log,
         Event("target", b, "safeParse", val, n.res.data, ~n.threw /\ n.res.success))

\* `return el.schema.safeParse(fnTransform)`: n is what the nested call did
ReduceNested(b, input, arr, i, val, n, log1) ==
  IF n.threw
    THEN [exc |-> TRUE, e |-> n.thrown, res |-> NoResult,
          cache |-> n.cache, log |-> NestedLog(b, val, n, log1)]
  ELSE ReduceFrom(b, input, arr, i + 1, n.res, n.cache, NestedLog(b, val, n, log1))

\* the callback of the reduce for element i, after el(prevResult.data, this)
\* returned or threw r
ReduceStep(b, input, arr, i, r, cache, log1) ==
  IF r.thrown
    THEN [exc |-> TRUE, e |-> r.err, res |-> NoResult, cache |-> cache, log |-> log1]
  ELSE IF arr[i].schema = 0
    THEN ReduceFrom(b, input, arr, i + 1, Success(r.val, input), cache, log1)
  ELSE ReduceNested(b, input, arr, i, r.val, SafeParseOf(arr[i].schema, r.val, cache), log1)

\* the arr.reduce(...) of _transform from element i on; exc = the callback threw
ReduceFrom(b, input, arr, i, prevResult, cache, log) ==
  IF i > Len(arr)
    THEN [exc |-> FALSE, e |-> NoErr, res |-> prevResult, cache |-> cache, log |-> log]
  ELSE IF ~prevResult.success
    THEN [exc |-> TRUE, e |-> prevResult.error, res |-> NoResult, cache |-> cache, log |-> log]
  ELSE
    ReduceStep(b, input, arr, i, Apply(arr[i].fn, prevResult.data), cache,
               Append(log, Event(IF arr[i].schema = 0 THEN "pre" ELSE "post", b, arr[i].fn,
                                 prevResult.data, Apply(arr[i].fn, prevResult.data).val,
                                 ~Apply(arr[i].fn, prevResult.data).thrown)))

\* the catch block of _transform: r is what the reduce did, w the wrapping
\* of the caught value
TransformCatch(input, r, w) ==
  IF ~r.exc
    THEN [threw |-> FALSE, thrown |-> NoErr, res |-> r.res, cache |-> r.cache, log |-> r.log]
  ELSE IF w.thrown
    THEN [threw |-> TRUE, thrown |-> w.err, res |-> NoResult, cache |-> r.cache, log |-> r.log]
  ELSE [threw |-> FALSE, thrown |-> NoErr, res |-> Failure(w.err, input),
        cache |-> r.cache, log |-> r.log]

TransformTry(input, r) == TransformCatch(input, r, WrapCaught(r.e))

\* _transform(input, arr)
Transform(b, input, arr, cache) ==
  IF Len(arr) = 0
    THEN [threw |-> FALSE, thrown |-> NoErr, res |-> Success(input, input),
          cache |-> cache, log |-> <<>>]
  ELSE TransformTry(input, ReduceFrom(b, input, arr, 1, Success(input, input), cache, <<>>))

\* _safeParseRaw(input)
SafeParseRaw(b, input, cache) ==
  LET c == Compile(builders[b].schema, cache)
  IN IF ~c.ok
       THEN [res |-> Failure(Err("Error", c.msg, "thrown"), input), cache |-> c.cache]
     ELSE IF input \notin c.fn.accepts
       THEN [res |-> Failure(Err("Error", "must match schema", "errors"), input), cache |-> c.cache]
     ELSE [res |-> Success(input, input), cache |-> c.cache]

\* what the catch block of the refine loop returns for the caught value e
RefineCaught(e, data) == Failure(e, data)

\* what the refine loop returns for a defined return value
RefineSignalled(data) == Failure(Err("Error", "refine error", "debug"), data)

\* mutation: the loop goes on after a refine function has signalled failure
RECURSIVE RefineAll(_, _, _, _)
RefineAll(b, i, postResult, log) ==
  IF i > Len(builders[b].refineFns)
    THEN [res |-> postResult, stage |-> "done", log |-> log]
  ELSE
    LET fn == builders[b].refineFns[i]
        r == Apply(fn, postResult.data)
        log1 == Append(log, Event("refine", b, fn, postResult.data, r.val,
                                  ~r.thrown /\ r.val = Undefined))
        rest == RefineAll(b, i + 1, postResult, log1)
    IN IF r.thrown
         THEN [res |-> RefineCaught(r.err, postResult.data), stage |-> "refine", log |-> rest.log]
       ELSE IF r.val # Undefined
         THEN [res |-> RefineSignalled(postResult.data), stage |-> "refine", log |-> rest.log]
       ELSE rest

\* mutation: only the first refine function is consulted
RefineFirstOnly(b, i, postResult, log) ==
  IF i > Len(builders[b].refineFns)
    THEN [res |-> postResult, stage |-> "done", log |-> log]
  ELSE
    LET fn == builders[b].refineFns[i]
        r == Apply(fn, postResult.data)
        log1 == Append(log, Event("refine", b, fn, postResult.data, r.val,
                                  ~r.thrown /\ r.val = Undefined))
    IN IF r.thrown
         THEN [res |-> RefineCaught(r.err, postResult.data), stage |-> "refine", log |-> log1]
       ELSE IF r.val # Undefined
         THEN [res |-> RefineSignalled(postResult.data), stage |-> "refine", log |-> log1]
       ELSE [res |-> postResult, stage |-> "done", log |-> log1]

\* the refine loop of safeParse from function i on
RECURSIVE RefineFrom(_, _, _, _)
RefineFrom(b, i, postResult, log) ==
  IF i > Len(builders[b].refineFns)
    THEN [res |-> postResult, stage |-> "done", log |-> log]
  ELSE
    LET fn == builders[b].refineFns[i]
        r == Apply(fn, postResult.data)
        log1 == Append(log, Event("refine", b, fn, postResult.data, r.val,
                                  ~r.thrown /\ r.val = Undefined))
    IN IF r.thrown
         THEN [res |-> RefineCaught(r.err, postResult.data), stage |-> "refine", log |-> log1]
       ELSE IF r.val # Undefined
         THEN [res |-> RefineSignalled(postResult.data), stage |-> "refine", log |-> log1]
       ELSE RefineFrom(b, i + 1, postResult, log1)

Outcome(threw, thrown, res, cache, log, stage, pre, raw, post) ==
  [threw |-> threw, thrown |-> thrown, res |-> res, cache |-> cache, log |-> log,
   stage |-> stage, pre |-> pre, raw |-> raw, post |-> post]

\* result.input = input
WithInput(res, input) == [res EXCEPT !.input = input]
Stamped(t, input) == [t EXCEPT !.res = WithInput(t.res, input)]

EngineLog(b, pre, raw) ==
  Append(pre.log, Event("engine", b, "compile", pre.res.data, Absent, raw.res.success))

\* safeParse after the refine loop
AfterRefine(pre, raw, post, ref) ==
  Outcome(FALSE, NoErr, ref.res, post.cache, ref.log, ref.stage, pre.res, raw.res, post.res)

\* safeParse after _transform(parseResult.data, this.postFns)
AfterPost(b, input, pre, raw, log3, post) ==
  IF post.threw
    THEN Outcome(TRUE, post.thrown, NoResult, post.cache, log3, "post",
                 pre.res, raw.res, NoResult)
  ELSE IF ~post.res.success
    THEN Outcome(FALSE, NoErr, post.res, post.cache, log3, "post",
                 pre.res, raw.res, post.res)
  ELSE AfterRefine(pre, raw, post, RefineFrom(b, 1, post.res, log3))

PostOf(b, input, raw) == Stamped(Transform(b, raw.res.data, builders[b].postFns, raw.cache), input)

\* safeParse after _safeParseRaw(preTransformedResult.data)
AfterRaw(b, input, pre, raw) ==
  IF ~raw.res.success
    THEN Outcome(FALSE, NoErr, raw.res, raw.cache, EngineLog(b, pre, raw), "engine",
                 pre.res, raw.res, NoResult)
  ELSE AfterPost(b, input, pre, raw,
                 EngineLog(b, pre, raw) \o PostOf(b, input, raw).log, PostOf(b, input, raw))

\* safeParse after _transform(input, this.preFns)
AfterPre(b, input, pre) ==
  IF pre.threw
    THEN Outcome(TRUE, pre.thrown, NoResult, pre.cache, pre.log, "pre",
                 NoResult, NoResult, NoResult)
  ELSE IF ~pre.res.success
    THEN Outcome(FALSE, NoErr, pre.res, pre.cache, pre.log, "pre",
                 pre.res, NoResult, NoResult)
  ELSE AfterRaw(b, input, pre, Stamped(SafeParseRaw(b, pre.res.data, pre.cache), input))

\* safeParse(input) on builder b with the engine cache as given
SafeParseOf(b, input, cache) ==
  AfterPre(b, input, Stamped(Transform(b, input, builders[b].preFns, cache), input))

\* `const { success } = this.safeParse(input); return success`
ValidateRet(r) ==
  [threw |-> r.threw, thrown |-> r.thrown, cache |-> r.cache,
   ret |-> IF r.threw THEN Absent ELSE V(IF r.res.success THEN "true" ELSE "false")]

\* validate(input)
ValidateOf(b, input, cache) == ValidateRet(SafeParseOf(b, input, cache))

\* `if (!result.success) { throw result.error }; return result.data`
ParseRet(r) ==
  IF r.threw
    THEN [threw |-> TRUE, thrown |-> r.thrown, cache |-> r.cache, ret |-> Absent]
  ELSE IF ~r.res.success
    THEN [threw |-> TRUE, thrown |-> r.res.error, cache |-> r.cache, ret |-> Absent]
  ELSE [threw |-> FALSE, thrown |-> NoErr, cache |-> r.cache, ret |-> r.res.data]

\* mutation: parse returns what validate returns, without throwing
ParseNoThrow(b, input, cache) == ValidateRet(SafeParseOf(b, input, cache))

\* parse(input)
ParseOf(b, input, cache) == ParseRet(SafeParseOf(b, input, cache))

(***************************************************************************)
(* Builders                                                                *)
(***************************************************************************)
\* origin: the builder this one was derived from by pick, omit, extend or
\* merge (0 for a constructed one)
Builder(kind, schema, def) ==
  [kind |-> kind, schema |-> schema, def |-> def,
   preFns |-> <<>>, postFns |-> <<>>, refineFns |-> <<>>, isNullable |-> FALSE,
   origin |-> 0, ajv |-> "default"]

\* the records of calls kept for the properties
NoCall ==
  [op |-> "none", b |-> 0, input |-> Absent, threw |-> FALSE, thrown |-> NoErr,
   ret |-> Absent, res |-> NoResult, log |-> <<>>, stage |-> "none",
   pre |-> NoResult, raw |-> NoResult, post |-> NoResult, inner |-> FALSE,
   engine |-> "none"]

NoKeys == [key \in Keys |-> 0]

\* what can be observed of an Object builder: its fragment, the `properties`
\* map and `required` array the fragment refers to, its definition map, and
\* the inputs its fragment accepts
View(b) ==
  LET f == frags[builders[b].schema]
  IN [frag |-> f,
      props |-> IF f.props = 0 THEN NoKeys ELSE propsHeap[f.props],
      required |-> IF f.required = 0 THEN <<>> ELSE reqHeap[f.required],
      def |-> IF builders[b].def = 0 THEN NoKeys ELSE defHeap[builders[b].def],
      accepts |-> IF CompileOK(builders[b].schema)
                    THEN {v \in Universe : Accepts(builders[b].schema, v)} ELSE {}]

NoView ==
  [frag |-> EmptyFrag, props |-> NoKeys, required |-> <<>>, def |-> NoKeys, accepts |-> {}]

\* the last deriving call: the receiver, the builder returned, the definition
\* map and the builder given, and the receiver as it was before the call
NoHist ==
  [op |-> "none", recv |-> 0, result |-> 0, threw |-> FALSE, before |-> NoView,
   arg |-> NoKeys, other |-> 0, args |-> <<>>]

FnCount(b) ==
  Len(builders[b].preFns) + Len(builders[b].postFns) + Len(builders[b].refineFns)

\* typeof fn === "function"
IsFunction(fn) == fn \in PreFnSet \cup PostFnSet \cup RefineFnSet

\* `throw new TypeError(...)` of a registration call op on builder b
Rejected(op, b) ==
  /\ last' = [NoCall EXCEPT !.op = op, !.b = b, !.threw = TRUE,
                            !.thrown = Err("TypeError", "not a function", "cause")]
  /\ prev' = NoCall
  /\ UNCHANGED <<builders, frags, propsHeap, reqHeap, defHeap, compiled, hist>>

\* this.xFns.push(el) on builder b, which the call returns
Registered(bs) ==
  /\ builders' = bs
  /\ last' = NoCall /\ prev' = NoCall
  /\ UNCHANGED <<frags, propsHeap, reqHeap, defHeap, compiled, hist>>

\* preprocess(fn)
Preprocess(b, fn) ==
  /\ FnCount(b) < MaxFns
  /\ IF ~IsFunction(fn) THEN Rejected("preprocess", b)
     ELSE Registered([builders EXCEPT ![b].preFns = Append(@, PreEl(fn))])

\* postprocess(fn, schema)
Postprocess(b, fn, target) ==
  /\ FnCount(b) < MaxFns
  /\ IF ~IsFunction(fn) THEN Rejected("postprocess", b)
     ELSE Registered([builders EXCEPT ![b].postFns = Append(@, PostEl(fn, target))])

\* mutation: refine registers its argument without looking at it
RefineNoGuard(b, fn) ==
  /\ FnCount(b) < MaxFns
  /\ Registered([builders EXCEPT ![b].refineFns = Append(@, fn)])

\* refine(fn)
Refine(b, fn) ==
  /\ FnCount(b) < MaxFns
  /\ IF ~IsFunction(fn) THEN Rejected("refine", b)
     ELSE Registered([builders EXCEPT ![b].refineFns = Append(@, fn)])

\* nullable()
Nullable(b) ==
  /\ builders' = [builders EXCEPT ![b].isNullable = TRUE]
  /\ LET f == frags[builders[b].schema]
     IN frags' = [frags EXCEPT ![builders[b].schema] =
                    [f EXCEPT !.nullable = TRUE, !.typeArr = TRUE, !.type = NullableType(f)]]
  /\ last' = NoCall /\ prev' = NoCall
  /\ UNCHANGED <<propsHeap, reqHeap, defHeap, compiled, hist>>

\* the safeParse call before this one, when it was on the same builder and input
PrevOf(b, input) ==
  IF last.op = "safeParse" /\ last.b = b /\ last.input = input THEN last ELSE NoCall

\* the record of a safeParse call that did r
CalledSafeParse(b, input, r) ==
  [op |-> "safeParse", b |-> b, input |-> input, threw |-> r.threw,
   thrown |-> r.thrown, ret |-> Absent, res |-> r.res, log |-> r.log,
   stage |-> r.stage, pre |-> r.pre, raw |-> r.raw, post |-> r.post,
   inner |-> r.threw, engine |-> builders[b].ajv]

\* the record of a validate or parse call that did r, with the result of the
\* this.safeParse(input) it made (`inner` = that call threw)
Called(op, b, input, r, sp) ==
  [CalledSafeParse(b, input, sp) EXCEPT !.op = op, !.threw = r.threw,
                                        !.thrown = r.thrown, !.ret = r.ret]

\* a call on builder b: the engine keeps what it compiled
Call(b, input, cache, record) ==
  /\ last' = record
  /\ prev' = PrevOf(b, input)
  /\ compiled' = cache
  /\ UNCHANGED <<builders, frags, propsHeap, reqHeap, defHeap, hist>>

SafeParse(b, input) ==
  Call(b, input, SafeParseOf(b, input, compiled).cache,
       CalledSafeParse(b, input, SafeParseOf(b, input, compiled)))

Validate(b, input) ==
  Call(b, input, ValidateOf(b, input, compiled).cache,
       Called("validate", b, input, ValidateOf(b, input, compiled),
              SafeParseOf(b, input, compiled)))

Parse(b, input) ==
  Call(b, input, ParseOf(b, input, compiled).cache,
       Called("parse", b, input, ParseOf(b, input, compiled),
              SafeParseOf(b, input, compiled)))

(***************************************************************************)
(* Specification of the parse pipeline: an enum builder (1) whose          *)
(* postprocess target is a number builder (2)                              *)
(***************************************************************************)
Outer == 1
Target == 2

\* s.enum([0, 1])
EnumFrag == [EmptyFrag EXCEPT !.hasEnum = TRUE, !.enum = {"n0", "n1"}]

\* the target builder as constructed: s.number(), s.number().preprocess(inc),
\* s.number().refine(throwUndef)
TargetBuilders ==
  { Builder("number", 2, 0),
    [Builder("number", 2, 0) EXCEPT !.preFns = <<PreEl("inc")>>],
    [Builder("number", 2, 0) EXCEPT !.refineFns = <<"throwUndef">>] }

Inputs == {V("n0"), V("sa")}

Init ==
  /\ \E t \in TargetBuilders : builders = <<Builder("enum", 1, 0), t>>
  /\ frags = <<EnumFrag, TypedFrag("number")>>
  /\ propsHeap = <<>> /\ reqHeap = <<>> /\ defHeap = <<>>
  /\ compiled = <<NotCompiled, NotCompiled>>
  /\ last = NoCall /\ prev = NoCall /\ hist = NoHist

Next ==
  \/ \E fn \in PreFnSet : Preprocess(Outer, fn)
  \/ \E fn \in PostFnSet : Postprocess(Outer, fn, Target)
  \/ \E fn \in RefineFnSet : Refine(Outer, fn)
  \/ Nullable(Outer)
  \/ \E x \in Inputs : SafeParse(Outer, x)
  \/ \E x \in Inputs : Validate(Outer, x)
  \/ \E x \in Inputs : Parse(Outer, x)

Spec == Init /\ [][Next]_vars

(***************************************************************************)
(* Properties of the parse pipeline                                        *)
(***************************************************************************)
HasData(r) == "data" \in r.keys /\ r.data # Undefined
HasError(r) == "error" \in r.keys /\ r.error.kind \notin {"undefined", "absent"}

\* the steps of the last call that belong to the called builder itself
OwnIdx == {i \in 1..Len(last.log) : last.log[i].b = last.b}
OwnAt(stage) == {i \in OwnIdx : last.log[i].stage = stage}

\* p(x) for the preprocess list p, as long as no function throws
RECURSIVE PreValue(_, _)
PreValue(fns, x) ==
  IF fns = <<>> THEN x
  ELSE LET r == Apply(fns[1].fn, x)
       IN IF r.thrown THEN Absent ELSE PreValue(Tail(fns), r.val)

RefinePasses(fn, v) == ~Apply(fn, v).thrown /\ Apply(fn, v).val = Undefined

StepFailed(e) ==
  CASE e.stage \in {"pre", "post"} -> Apply(e.fn, e.arg).thrown
    [] e.stage = "refine" -> ~RefinePasses(e.fn, e.arg)
    [] OTHER -> ~e.ok

Rank(stage) ==
  CASE stage = "pre" -> 1
    [] stage = "engine" -> 2
    [] stage \in {"post", "target"} -> 3
    [] stage = "refine" -> 4

\* C1: safeParse and validate return normally and never raise, whatever a
\* preprocess, postprocess or refine function throws and whether the engine
\* rejects the value or fails to compile the fragment.
C1_NeverThrows ==
  last.op \in {"safeParse", "validate"} => ~last.threw

\* the parts of the pipeline ordering that do not depend on the value given
\* to refine: the engine gets p(x), q gets the validated value, refine runs
\* only after the target's safeParse succeeded, and a failing target makes
\* the call fail without any refine call
OrderingFrame ==
  /\ \A i \in OwnAt("engine") : last.log[i].arg = PreValue(builders[last.b].preFns, last.input)
  /\ \A i \in OwnAt("post") : \E j \in OwnAt("engine") : j < i /\ last.log[i].arg = last.log[j].arg
  /\ \A i \in OwnAt("refine") : \E j \in OwnAt("target") : j < i /\ last.log[j].ok
  /\ (\E j \in OwnAt("target") : ~last.log[j].ok)
       => /\ ~last.threw /\ ~last.res.success
          /\ OwnAt("refine") = {}

OnePost == last.op = "safeParse" /\ Len(builders[last.b].postFns) = 1

\* C2 (as stated): with preprocess p, postprocess q paired with T and refine
\* r, the engine gets p(x), r is invoked only after T.safeParse of q's output
\* succeeded and is passed q(validated value); a failing T.safeParse fails the
\* call and r is never invoked.
C2_RefineGetsPostOutput ==
  OnePost =>
    /\ OrderingFrame
    /\ \A i \in OwnAt("refine") : \E j \in OwnAt("post") : last.log[i].arg = last.log[j].out

\* C2 (amended): as above, but the value passed to r is the `data` returned
\* by T.safeParse(q(validated value)).
C2_RefineGetsTargetData ==
  OnePost =>
    /\ OrderingFrame
    /\ \A i \in OwnAt("refine") : \E j \in OwnAt("target") : last.log[i].arg = last.log[j].out

C2_Witness ==
  /\ OnePost /\ builders[last.b].preFns # <<>>
  /\ OwnAt("refine") # {}
  /\ \E j \in OwnAt("post") : last.log[j].out # last.log[j].arg

\* C3: within one safeParse call the stages run in the order preprocess,
\* engine, postprocess, refine, the engine is asked at most once, and the
\* first failing step is the last step of the call.
C3_StagesInOrder ==
  last.op = "safeParse" =>
    /\ \A i, j \in OwnIdx :
         i < j => /\ Rank(last.log[i].stage) <= Rank(last.log[j].stage)
                  /\ ~StepFailed(last.log[i])
    /\ Cardinality(OwnAt("engine")) <= 1

C3_Witness ==
  /\ last.op = "safeParse" /\ last.stage = "refine"
  /\ Len(builders[last.b].refineFns) >= 2
  /\ Cardinality(OwnAt("refine")) = 1
  /\ OwnAt("pre") # {}

\* C4: in every result returned by safeParse(x) the `input` field is the
\* original argument x.
C4_InputIsOriginal ==
  (last.op = "safeParse" /\ ~last.threw) => last.res.input = last.input

\* C5: every result returned by safeParse populates exactly one variant:
\* `data` and no `error` on success, `error` and no `data` on failure.
C5_ExactlyOneVariant ==
  (last.op = "safeParse" /\ ~last.threw) =>
    IF last.res.success
      THEN HasData(last.res) /\ "error" \notin last.res.keys
      ELSE HasError(last.res) /\ "data" \notin last.res.keys

\* C6: for a value that has passed preprocess, engine validation and
\* postprocess, safeParse succeeds if and only if every registered refine
\* function returns undefined without throwing.
C6_SuccessIffRefinesPass ==
  (last.op = "safeParse" /\ ~last.threw /\ last.post.success) =>
    (last.res.success <=>
       \A i \in 1..Len(builders[last.b].refineFns) :
         RefinePasses(builders[last.b].refineFns[i], last.post.data))

C6_Witness ==
  /\ last.op = "safeParse" /\ last.post.success /\ last.res.success
  /\ Len(builders[last.b].refineFns) >= 2

\* C7: validate(x) equals the success flag of safeParse(x); parse(x) returns
\* the data of safeParse(x) when it succeeds and raises its error when it fails.
C7_EntryPointsAgree ==
  /\ last.op = "validate" =>
       /\ last.threw = last.inner
       /\ ~last.inner => last.ret = V(IF last.res.success THEN "true" ELSE "false")
  /\ (last.op = "parse" /\ ~last.inner) =>
       IF last.res.success
         THEN ~last.threw /\ last.ret = last.res.data
         ELSE last.threw /\ last.thrown = last.res.error

C7_Witness ==
  /\ last.op = "parse" /\ ~last.inner
  /\ ~last.res.success /\ last.threw /\ last.stage = "refine"

\* C8: two consecutive safeParse calls with the same input on the same
\* builder, with no fluent call between them, return the same success flag
\* and the same data (on success) or error message (on failure).
C8_Deterministic ==
  (last.op = "safeParse" /\ prev.op = "safeParse") =>
    /\ last.threw = prev.threw
    /\ last.res.success = prev.res.success
    /\ last.res.data = prev.res.data
    /\ last.res.error.message = prev.res.error.message

(***************************************************************************)
(* Specification of nullable(): one builder of each kind, as constructed,  *)
(* over two child builders string() (2) and number() (3)                   *)
(***************************************************************************)
Kinds ==
  {"number", "string", "boolean", "null", "object", "array", "tuple",
   "enum", "const", "union", "intersection", "not", "any"}

\* the fragment each constructor passes to super(); children are fragments 2, 3
FragOfKind(kind) ==
  CASE kind \in {"number", "string", "boolean", "null"} -> TypedFrag(kind)
    [] kind = "object" -> [TypedFrag("object") EXCEPT !.props = 1]
    [] kind \in {"array", "tuple"} -> TypedFrag("array")
    [] kind = "enum" -> EnumFrag
    [] kind = "const" -> [EmptyFrag EXCEPT !.const = "sa"]
    [] kind = "union" -> [EmptyFrag EXCEPT !.anyOf = <<2, 3>>]
    [] kind = "intersection" -> [EmptyFrag EXCEPT !.allOf = <<2, 3>>]
    [] kind = "not" -> [EmptyFrag EXCEPT !.not = 2]
    [] kind = "any" -> EmptyFrag

NullInputs == {Null, Undefined, V("n1"), V("sa")}

InitNullable ==
  /\ \E kind \in Kinds :
       /\ builders = <<Builder(kind, 1, 0), Builder("string", 2, 0), Builder("number", 3, 0)>>
       /\ frags = <<FragOfKind(kind), TypedFrag("string"), TypedFrag("number")>>
  /\ propsHeap = <<NoKeys>> /\ reqHeap = <<>> /\ defHeap = <<>>
  /\ compiled = <<NotCompiled, NotCompiled, NotCompiled>>
  /\ last = NoCall /\ prev = NoCall /\ hist = NoHist

\* optional(): `return this.nullable()`
Optional(b) == Nullable(b)

NextNullable ==
  \/ Nullable(1)
  \/ Optional(1)
  \/ \E x \in NullInputs : Validate(1, x)
  \/ \E x \in NullInputs : SafeParse(1, x)

SpecNullable == InitNullable /\ [][NextNullable]_vars

\* C9: for a builder b of any kind, b.nullable().validate(null) is true and
\* b.nullable().schema.type contains "null".
C9_NullableAcceptsNull ==
  \A b \in 1..Len(builders) :
    builders[b].isNullable =>
      /\ "null" \in SeqRange(frags[builders[b].schema].type)
      /\ (last.op = "validate" /\ last.b = b /\ last.input = Null)
           => (~last.threw /\ last.ret = V("true"))

(***************************************************************************)
(* Object builders                                                         *)
(***************************************************************************)
IsObject(b) == builders[b].kind = "object"

\* the body shared by extend(def) and merge(schema), for the definition d:
\*   const a = object(); a.schema = Object.assign({}, this.schema);
\*   Object.entries(d).forEach(([key, def]) => a.schema.properties[key] = def.schema);
\*   a.def = { ...this.def, ...d }
\* Object.assign copies the references to `properties` and `required`.
ExtendWith(a, d, op, o) ==
  LET src == frags[builders[a].schema]
  IN /\ Len(builders) < MaxBuilders
     /\ frags' = Append(frags, src)
     /\ compiled' = Append(compiled, NotCompiled)
     /\ propsHeap' = [propsHeap EXCEPT ![src.props] =
                        [key \in Keys |->
                           IF d[key] # 0 THEN builders[d[key]].schema ELSE propsHeap[src.props][key]]]
     /\ defHeap' = Append(defHeap,
                          [key \in Keys |->
                             IF d[key] # 0 THEN d[key] ELSE defHeap[builders[a].def][key]])
     /\ builders' = Append(builders, [Builder("object", Len(frags) + 1, Len(defHeap) + 1)
                                        EXCEPT !.origin = a])
     /\ hist' = [op |-> op, recv |-> a, result |-> Len(builders) + 1, threw |-> FALSE,
                 before |-> View(a), arg |-> d, other |-> o, args |-> <<>>]
     /\ last' = NoCall /\ prev' = NoCall
     /\ UNCHANGED reqHeap

\* extend(def)
Extend(a, d) ==
  /\ IsObject(a)
  /\ ExtendWith(a, d, "extend", 0)

\* schema.schema.type !== 'object'
NotObjectType(f) == ~(f.typeArr = FALSE /\ f.type = <<"object">>)

\* a call that throws and changes nothing
Throws(op, a, o) ==
  /\ hist' = [op |-> op, recv |-> a, result |-> 0, threw |-> TRUE, before |-> View(a),
              arg |-> NoKeys, other |-> o, args |-> <<>>]
  /\ last' = NoCall /\ prev' = NoCall
  /\ UNCHANGED <<builders, frags, propsHeap, reqHeap, defHeap, compiled>>

\* merge(schema)
Merge(a, o) ==
  /\ IsObject(a)
  /\ IF NotObjectType(frags[builders[o].schema])
       THEN Throws("merge", a, o)
     ELSE IsObject(o) /\ ExtendWith(a, defHeap[builders[o].def], "merge", o)

\* another fragment refers to the array this.schema.required of b refers to
SharedRequired(b) ==
  \E id \in 1..Len(frags) :
    id # builders[b].schema /\ frags[id].required = frags[builders[b].schema].required

\* where the array assigned to this.schema.required of b is kept: a new
\* place, or the place of the array it replaces when nothing else refers
\* to that one
ReqPlace(b) ==
  IF frags[builders[b].schema].required # 0 /\ ~SharedRequired(b)
    THEN frags[builders[b].schema].required
  ELSE Len(reqHeap) + 1

\* the arrays after `this.schema.required = arr` on b
WithRequired(b, arr) ==
  IF ReqPlace(b) <= Len(reqHeap) THEN [reqHeap EXCEPT ![ReqPlace(b)] = arr]
  ELSE Append(reqHeap, arr)

\* requiredFor(key): a new array with the key added, deduplicated
RequiredFor(b, key) ==
  LET f == frags[builders[b].schema]
      old == IF f.required = 0 THEN <<>> ELSE reqHeap[f.required]
  IN /\ IsObject(b)
     /\ ReqPlace(b) <= MaxReqs
     /\ reqHeap' = WithRequired(b, Dedup(Append(old, key)))
     /\ frags' = [frags EXCEPT ![builders[b].schema].required = ReqPlace(b)]
     /\ last' = NoCall /\ prev' = NoCall /\ hist' = NoHist
     /\ UNCHANGED <<builders, propsHeap, defHeap, compiled>>

\* strict()
Strict(b) ==
  /\ IsObject(b)
  /\ frags' = [frags EXCEPT ![builders[b].schema].addl = "false"]
  /\ last' = NoCall /\ prev' = NoCall /\ hist' = NoHist
  /\ UNCHANGED <<builders, propsHeap, reqHeap, defHeap, compiled>>

(***************************************************************************)
(* Specification of the Object builders: children string() (1) and         *)
(* number() (2), A = object({x: string()}) (3) and a second object B (4)   *)
(***************************************************************************)
StrB == 1
NumB == 2

Def(bx, by) == [key \in Keys |-> IF key = "x" THEN bx ELSE by]

\* the definitions given to object(...) for B and to extend(...)
DefLiterals == {Def(0, NumB), Def(NumB, 0)}

\* new ObjectSchemaBuilder(def): properties[key] = def[key].schema, this.def = def
InitObject ==
  \E d \in DefLiterals :
    /\ builders = <<Builder("string", 1, 0), Builder("number", 2, 0),
                    Builder("object", 3, 1), Builder("object", 4, 2)>>
    /\ frags = <<TypedFrag("string"), TypedFrag("number"),
                 [TypedFrag("object") EXCEPT !.props = 1],
                 [TypedFrag("object") EXCEPT !.props = 2]>>
    /\ propsHeap = <<Def(1, 0), [key \in Keys |-> IF d[key] = 0 THEN 0 ELSE d[key]]>>
    /\ defHeap = <<Def(StrB, 0), d>>
    /\ reqHeap = <<>>
    /\ compiled = <<NotCompiled, NotCompiled, NotCompiled, NotCompiled>>
    /\ last = NoCall /\ prev = NoCall /\ hist = NoHist

ObjectBuilders == {b \in 1..Len(builders) : IsObject(b)}

NextObject ==
  \/ \E a \in ObjectBuilders, d \in DefLiterals : Extend(a, d)
  \/ \E a \in ObjectBuilders, o \in ObjectBuilders : Merge(a, o)
  \/ \E b \in ObjectBuilders, key \in Keys : RequiredFor(b, key)
  \/ \E b \in ObjectBuilders : Strict(b)

SpecObject == InitObject /\ [][NextObject]_vars

\* C10: extend(def) and merge(B) return a new builder and leave the receiver
\* unchanged: its fragment, `properties` map, `required` array and definition
\* map are as before the call, so it accepts exactly the inputs it did.
C10_ReceiverUnchanged ==
  hist.op \in {"extend", "merge"} =>
    /\ hist.result # hist.recv
    /\ View(hist.recv) = hist.before

(***************************************************************************)
(* pick, omit and keyof on Object builders                                 *)
(***************************************************************************)
\* Object.keys(map)
KeyNames(map) == {key \in Keys : map[key] # 0}

\* new ObjectSchemaBuilder(def) where def is the definition object defId:
\* a new fragment with a new `properties` map, and this.def = def
NewObject(defId, d, op, a) ==
  /\ Len(builders) < MaxBuilders
  /\ frags' = Append(frags, [TypedFrag("object") EXCEPT !.props = Len(propsHeap) + 1])
  /\ compiled' = Append(compiled, NotCompiled)
  /\ propsHeap' = Append(propsHeap,
                         [key \in Keys |-> IF d[key] # 0 THEN builders[d[key]].schema ELSE 0])
  /\ builders' = Append(builders, [Builder("object", Len(frags) + 1, defId)
                                     EXCEPT !.origin = a])
  /\ hist' = [op |-> op, recv |-> a, result |-> Len(builders) + 1, threw |-> FALSE,
              before |-> View(a), arg |-> d, other |-> 0, args |-> <<>>]
  /\ last' = NoCall /\ prev' = NoCall
  /\ UNCHANGED reqHeap

\* the entries of d whose key is among keys
Picked(d, keys) == [key \in Keys |-> IF key \in keys THEN d[key] ELSE 0]

\* pick(...keys): the picked entries go into a new definition object
Pick(a, keys) ==
  /\ IsObject(a)
  /\ defHeap' = Append(defHeap, Picked(defHeap[builders[a].def], keys))
  /\ NewObject(Len(defHeap) + 1, Picked(defHeap[builders[a].def], keys), "pick", a)

\* omit(...keys): `delete this.def[k]` for each key, then
\* new ObjectSchemaBuilder(this.def)
Omit(a, keys) ==
  /\ IsObject(a)
  /\ defHeap' = [defHeap EXCEPT ![builders[a].def] = Picked(@, Keys \ keys)]
  /\ NewObject(builders[a].def, Picked(defHeap[builders[a].def], Keys \ keys), "omit", a)

\* a call that makes a builder of another kind with the fragments fs
Derived(kind, fs, op, a) ==
  /\ Len(builders) < MaxBuilders
  /\ frags' = frags \o fs
  /\ compiled' = compiled \o [i \in 1..Len(fs) |-> NotCompiled]
  /\ builders' = Append(builders, Builder(kind, Len(frags) + Len(fs), 0))
  /\ hist' = [op |-> op, recv |-> a, result |-> Len(builders) + 1, threw |-> FALSE,
              before |-> View(a), arg |-> NoKeys, other |-> 0, args |-> <<>>]
  /\ last' = NoCall /\ prev' = NoCall
  /\ UNCHANGED <<propsHeap, reqHeap, defHeap>>

\* keyof(): makeEnum(Object.keys(this.def))
KeyofMethod(a) ==
  /\ IsObject(a)
  /\ Derived("enum",
             <<[EmptyFrag EXCEPT !.hasEnum = TRUE,
                                 !.enum = KeyNames(defHeap[builders[a].def])]>>,
             "keyof", a)

\* Object.keys(map) in order
KeySeq(map) ==
  (IF map["x"] # 0 THEN <<"x">> ELSE <<>>) \o (IF map["y"] # 0 THEN <<"y">> ELSE <<>>)

\* or(...names.map(constant)): one constant fragment for each name and the
\* union fragment over them
UnionOfConstants(names, base) ==
  [i \in 1..Len(names) |-> [EmptyFrag EXCEPT !.const = names[i]]]
    \o <<[EmptyFrag EXCEPT !.anyOf = [i \in 1..Len(names) |-> base + i]]>>

\* keyof(obj)
KeyofFn(a) ==
  IF frags[builders[a].schema].props = 0
    THEN Throws("keyofFn", a, 0)
  ELSE Derived("union",
               UnionOfConstants(KeySeq(propsHeap[frags[builders[a].schema].props]), Len(frags)),
               "keyofFn", a)

(***************************************************************************)
(* Specification of pick, omit and keyof: children string() (1) and        *)
(* number() (2) and A = object(def) (3) for a literal def                  *)
(***************************************************************************)
PickLiterals == {Def(StrB, NumB), Def(StrB, 0), Def(0, 0)}
KeySets == {{"x"}, {"y"}, {"x", "y"}}

InitPick ==
  \E d \in PickLiterals :
    /\ builders = <<Builder("string", 1, 0), Builder("number", 2, 0), Builder("object", 3, 1)>>
    /\ frags = <<TypedFrag("string"), TypedFrag("number"),
                 [TypedFrag("object") EXCEPT !.props = 1]>>
    /\ propsHeap = <<[key \in Keys |-> IF d[key] = 0 THEN 0 ELSE builders[d[key]].schema]>>
    /\ defHeap = <<d>>
    /\ reqHeap = <<>>
    /\ compiled = <<NotCompiled, NotCompiled, NotCompiled>>
    /\ last = NoCall /\ prev = NoCall /\ hist = NoHist

NextPick ==
  \/ \E a \in ObjectBuilders, keys \in KeySets : Pick(a, keys)
  \/ \E a \in ObjectBuilders, keys \in KeySets : Omit(a, keys)
  \/ \E a \in ObjectBuilders, d \in DefLiterals : Extend(a, d)
  \/ \E a \in ObjectBuilders, o \in ObjectBuilders : Merge(a, o)
  \/ \E a \in ObjectBuilders : KeyofMethod(a)
  \/ \E a \in ObjectBuilders : KeyofFn(a)

SpecPick == InitPick /\ [][NextPick]_vars

\* C11: pick(...keys) and omit(...keys) return a new Object builder built
\* from a filtered copy of the receiver's definition map and leave the
\* receiver as it was: its definition object, its fragment, and with them
\* what keyof(), pick and extend make of it.
C11_PickOmitKeepReceiver ==
  hist.op \in {"pick", "omit"} =>
    /\ hist.result # hist.recv
    /\ builders[hist.result].def # builders[hist.recv].def
    /\ View(hist.recv) = hist.before
    /\ KeyNames(defHeap[builders[hist.recv].def]) = KeyNames(hist.before.def)

(***************************************************************************)
(* The other fluent calls on Object builders                               *)
(***************************************************************************)
\* a fluent call on b that leaves its fragment as f2 and the arrays as reqs
SetFrag(b, f2, reqs) ==
  /\ IsObject(b)
  /\ frags' = [frags EXCEPT ![builders[b].schema] = f2]
  /\ reqHeap' = reqs
  /\ last' = NoCall /\ prev' = NoCall /\ hist' = NoHist
  /\ UNCHANGED <<builders, propsHeap, defHeap, compiled>>

FragOf(b) == frags[builders[b].schema]

\* this.schema.required ?? []
RequiredOf(b) == IF FragOf(b).required = 0 THEN <<>> ELSE reqHeap[FragOf(b).required]

\* passthrough()
Passthrough(b) == SetFrag(b, [FragOf(b) EXCEPT !.addl = "true"], reqHeap)

\* rest(def)
Rest(b, t) ==
  SetFrag(b, [FragOf(b) EXCEPT !.addl = "schema", !.addlSchema = builders[t].schema], reqHeap)

\* dependentRequired({key: [the other keys]})
DependentRequired(b, key) == SetFrag(b, [FragOf(b) EXCEPT !.depReq = key], reqHeap)

\* a call that assigns a new array to this.schema.required
NewRequired(b, arr) ==
  /\ ReqPlace(b) <= MaxReqs
  /\ SetFrag(b, [FragOf(b) EXCEPT !.required = ReqPlace(b)], WithRequired(b, arr))

\* partial()
Partial(b) == NewRequired(b, <<>>)

\* mutation: required() appends the property names without `new Set`
RequiredNoSet(b) ==
  /\ IsObject(b)
  /\ ReqPlace(b) <= MaxReqs
  /\ Len(RequiredOf(b)) <= Cardinality(Keys)
  /\ frags' = [frags EXCEPT ![builders[b].schema].required = ReqPlace(b)]
  /\ reqHeap' = WithRequired(b, RequiredOf(b) \o KeySeq(propsHeap[FragOf(b).props]))
  /\ hist' = [op |-> "required", recv |-> b, result |-> b, threw |-> FALSE,
              before |-> View(b), arg |-> NoKeys, other |-> 0,
              args |-> <<IF hist.op = "required" /\ hist.recv = b THEN 2 ELSE 1>>]
  /\ last' = NoCall /\ prev' = NoCall
  /\ UNCHANGED <<builders, propsHeap, defHeap, compiled>>

\* required(); the call record counts this call and a required() call on
\* the same builder right before it
Required(b) ==
  /\ IsObject(b)
  /\ ReqPlace(b) <= MaxReqs
  /\ frags' = [frags EXCEPT ![builders[b].schema].required = ReqPlace(b)]
  /\ reqHeap' = WithRequired(b, Dedup(RequiredOf(b) \o KeySeq(propsHeap[FragOf(b).props])))
  /\ hist' = [op |-> "required", recv |-> b, result |-> b, threw |-> FALSE,
              before |-> View(b), arg |-> NoKeys, other |-> 0,
              args |-> <<IF hist.op = "required" /\ hist.recv = b THEN 2 ELSE 1>>]
  /\ last' = NoCall /\ prev' = NoCall
  /\ UNCHANGED <<builders, propsHeap, defHeap, compiled>>

\* required.indexOf(key), 0 for -1
IndexOf(arr, key) ==
  IF \E i \in 1..Len(arr) : arr[i] = key
    THEN CHOOSE i \in 1..Len(arr) : arr[i] = key /\ \A j \in 1..(i - 1) : arr[j] # key
  ELSE 0

\* arr.splice(i, 1)
Splice(arr, i) == SubSeq(arr, 1, i - 1) \o SubSeq(arr, i + 1, Len(arr))

\* partialFor(key): the key is spliced out of the array this.schema.required
\* refers to
PartialFor(b, key) ==
  /\ IsObject(b)
  /\ IF FragOf(b).required # 0 /\ IndexOf(RequiredOf(b), key) # 0
       THEN SetFrag(b, FragOf(b),
                    [reqHeap EXCEPT ![FragOf(b).required] =
                       Splice(@, IndexOf(RequiredOf(b), key))])
     ELSE SetFrag(b, FragOf(b), reqHeap)

(***************************************************************************)
(* Specification of derived Object builders: children string() (1) and     *)
(* number() (2), A = object({x: string()}) (3), the builders derived from  *)
(* it, and the fluent calls on all of them                                 *)
(***************************************************************************)
MaxAlias == 4

InitAlias ==
  /\ builders = <<Builder("string", 1, 0), Builder("number", 2, 0), Builder("object", 3, 1)>>
  /\ frags = <<TypedFrag("string"), TypedFrag("number"),
               [TypedFrag("object") EXCEPT !.props = 1]>>
  /\ propsHeap = <<Def(1, 0)>>
  /\ defHeap = <<Def(StrB, 0)>>
  /\ reqHeap = <<>>
  /\ compiled = <<NotCompiled, NotCompiled, NotCompiled>>
  /\ last = NoCall /\ prev = NoCall /\ hist = NoHist

NextAlias ==
  \/ \E a \in ObjectBuilders : Len(builders) < MaxAlias /\ Pick(a, {"x"})
  \/ \E a \in ObjectBuilders : Len(builders) < MaxAlias /\ Omit(a, {"y"})
  \/ \E a \in ObjectBuilders : Len(builders) < MaxAlias /\ Extend(a, Def(0, NumB))
  \/ \E a \in ObjectBuilders, o \in ObjectBuilders : Len(builders) < MaxAlias /\ Merge(a, o)
  \/ \E b \in ObjectBuilders : Strict(b)
  \/ \E b \in ObjectBuilders : Passthrough(b)
  \/ \E b \in ObjectBuilders : Rest(b, NumB)
  \/ \E b \in ObjectBuilders : Required(b)
  \/ \E b \in ObjectBuilders, key \in Keys : RequiredFor(b, key)
  \/ \E b \in ObjectBuilders : Partial(b)
  \/ \E b \in ObjectBuilders, key \in Keys : PartialFor(b, key)
  \/ \E b \in ObjectBuilders : DependentRequired(b, "x")

SpecAlias == InitAlias /\ [][NextAlias]_vars

\* the fragment of b with the `properties` map and `required` array it refers to
FragView(b) ==
  [frag |-> FragOf(b),
   props |-> IF FragOf(b).props = 0 THEN NoKeys ELSE propsHeap[FragOf(b).props],
   required |-> RequiredOf(b)]

\* C12: once B has been derived from A by pick, omit, extend or merge, a
\* fluent call (strict, passthrough, rest, required, requiredFor, partial,
\* partialFor, dependentRequired) on one of the two does not change the
\* fragment of the other.
C12_NoAliasing ==
  [][\A a, b \in ObjectBuilders :
       (/\ builders[b].origin = a
        /\ Len(builders') = Len(builders)
        /\ FragView(b)' # FragView(b)) => FragView(a)' = FragView(a) ]_vars

\* the union of the entries of maps d1 and d2, those of d2 first
Union(d1, d2) == [key \in Keys |-> IF d2[key] # 0 THEN d2[key] ELSE d1[key]]

\* C13: the builder returned by extend(def) or merge(B) has as its definition
\* map and as its fragment's `properties` the union of the receiver's entries
\* and the argument's entries, the argument's child schema being used for a
\* key present in both, so that the result validates that key against it.
C13_ExtendIsUnion ==
  (hist.op \in {"extend", "merge"} /\ ~hist.threw) =>
    LET u == Union(hist.before.def, hist.arg)
    IN /\ defHeap[builders[hist.result].def] = u
       /\ propsHeap[FragOf(hist.result).props] =
            [key \in Keys |-> IF u[key] = 0 THEN 0 ELSE builders[u[key]].schema]
       /\ \A key \in KeyNames(hist.arg), v \in Universe :
            (v.k = "obj" /\ v.o[key] # "absent" /\ Accepts(builders[hist.result].schema, v))
              => Accepts(builders[hist.arg[key]].schema, V(v.o[key]))

(***************************************************************************)
(* The calls that write a fragment's `type`                                 *)
(***************************************************************************)
MaxFrags == 4

\* NumberSchemaBuilder.number() and integer(): this.schema.type = t
SetType(b, t) ==
  /\ frags' = [frags EXCEPT ![builders[b].schema] = [@ EXCEPT !.type = <<t>>, !.typeArr = FALSE]]
  /\ last' = NoCall /\ prev' = NoCall
  /\ UNCHANGED <<builders, propsHeap, reqHeap, defHeap, compiled, hist>>

Number(b) == builders[b].kind = "number" /\ SetType(b, "number")

Integer(b) == builders[b].kind = "number" /\ SetType(b, "integer")

\* an external JSON schema: the keywords it carries
JSON(type, const) == [type |-> type, const |-> const]

\* { ...f, ...json }
Spread(f, json) ==
  [f EXCEPT !.type = IF json.type = "absent" THEN @ ELSE <<json.type>>,
            !.typeArr = IF json.type = "absent" THEN @ ELSE FALSE,
            !.const = IF json.const = "absent" THEN @ ELSE json.const]

\* custom(key, value): this.schema[key] = value
Custom(b, json) ==
  /\ frags' = [frags EXCEPT ![builders[b].schema] = Spread(@, json)]
  /\ last' = NoCall /\ prev' = NoCall
  /\ UNCHANGED <<builders, propsHeap, reqHeap, defHeap, compiled, hist>>

\* fromJSON(json, b): the schema setter gives b a new fragment object
FromJSON(json, b) ==
  /\ Len(frags) < MaxFrags
  /\ frags' = Append(frags, Spread(frags[builders[b].schema], json))
  /\ compiled' = Append(compiled, NotCompiled)
  /\ builders' = [builders EXCEPT ![b].schema = Len(frags) + 1]
  /\ last' = NoCall /\ prev' = NoCall
  /\ UNCHANGED <<propsHeap, reqHeap, defHeap, hist>>

JSONLiterals ==
  {JSON("number", "absent"), JSON("string", "absent"), JSON("absent", "sa"),
   JSON("absent", "n1")}

\* every kind of builder, as constructed, under the calls above
NextFluent ==
  \/ Nullable(1)
  \/ Optional(1)
  \/ Number(1)
  \/ Integer(1)
  \/ \E json \in JSONLiterals : Custom(1, json)
  \/ \E json \in JSONLiterals : FromJSON(json, 1)

SpecFluent == InitNullable /\ [][NextFluent]_vars

\* how many times t occurs in s
Count(s, t) == Cardinality({i \in 1..Len(s) : s[i] = t})

\* C14: once nullable() or optional() was called on a builder, its type
\* contains "null" exactly once after every later fluent call on it.
C14_NullStaysInType ==
  \A b \in 1..Len(builders) :
    builders[b].isNullable => Count(FragOf(b).type, "null") = 1

\* the `type` names of the kind a constructor builds
TypesOfKind(kind) ==
  CASE kind = "number" -> {"number", "integer"}
    [] kind \in {"string", "boolean", "null", "object"} -> {kind}
    [] kind \in {"array", "tuple"} -> {"array"}
    [] OTHER -> {}

\* the types a fragment names, without what nullable() adds to them
NamedTypes(b) ==
  SeqRange(FragOf(b).type) \ ({"undefined"} \cup (IF builders[b].isNullable THEN {"null"} ELSE {}))

\* C15: after any sequence of operations on a builder, the kind its
\* fragment's `type` names is the kind it was constructed with.
C15_KindIsFixed ==
  \A b \in 1..Len(builders) :
    LET kind == builders[b].kind
    IN IF kind = "null" THEN SeqRange(FragOf(b).type) = {"null"}
       ELSE /\ NamedTypes(b) \subseteq TypesOfKind(kind)
            /\ TypesOfKind(kind) # {} => NamedTypes(b) # {}

(***************************************************************************)
(* Array and Tuple builders.  `items` is absent, false, one fragment or a  *)
(* list of fragments; minItems and maxItems hold at most one number.       *)
(***************************************************************************)
MaxItems == 2

\* new ArraySchemaBuilder(definition): the fragment given to super()
ArrayFrag(el) ==
  [TypedFrag("array") EXCEPT !.itemsKind = "one", !.items = <<el>>, !.minItems = <<0>>]

\* new TupleSchemaBuilder(...defs): the fragment given to super()
TupleFrag(defs) ==
  [TypedFrag("array") EXCEPT !.prefixItems = defs, !.addlItems = "false"]

\* a fluent call on b with arguments args that leaves fragment f2 and returns b
Fluent(op, b, args, f2) ==
  /\ frags' = [frags EXCEPT ![builders[b].schema] = f2]
  /\ hist' = [op |-> op, recv |-> b, result |-> b, threw |-> FALSE, before |-> View(b),
              arg |-> NoKeys, other |-> 0, args |-> args]
  /\ last' = NoCall /\ prev' = NoCall
  /\ UNCHANGED <<builders, propsHeap, reqHeap, defHeap, compiled>>

\* a fluent call on b with arguments args that throws
FluentThrows(op, b, args) ==
  /\ hist' = [op |-> op, recv |-> b, result |-> 0, threw |-> TRUE, before |-> View(b),
              arg |-> NoKeys, other |-> 0, args |-> args]
  /\ last' = NoCall /\ prev' = NoCall
  /\ UNCHANGED <<builders, frags, propsHeap, reqHeap, defHeap, compiled>>

\* maxLength(value)
MaxLength(b, n) ==
  Fluent("maxLength", b, <<n>>, [FragOf(b) EXCEPT !.maxItems = <<n>>])

\* minLength(value)
MinLength(b, n) ==
  IF n < 0 THEN FluentThrows("minLength", b, <<n>>)
  ELSE Fluent("minLength", b, <<n>>, [FragOf(b) EXCEPT !.minItems = <<n>>])

\* length(value): this.minLength(value).maxLength(value)
Length(b, n) ==
  IF n < 0 THEN FluentThrows("length", b, <<n>>)
  ELSE Fluent("length", b, <<n>>, [FragOf(b) EXCEPT !.minItems = <<n>>, !.maxItems = <<n>>])

\* s.map((el) => el.schema)
SchemasOf(ss) == [i \in 1..Len(ss) |-> builders[ss[i]].schema]

\* Object.keys(prev).length === 0
IsEmptyObject(id) == frags[id] = EmptyFrag

\* the `items` addItems(...ss) leaves
AddedItems(f, ss) ==
  CASE f.itemsKind = "list" -> f.items \o SchemasOf(ss)
    [] f.itemsKind = "one" ->
         IF IsEmptyObject(f.items[1]) THEN SchemasOf(ss) ELSE <<f.items[1]>> \o SchemasOf(ss)
    [] OTHER -> SchemasOf(ss)

\* addItems(...s)
AddItems(b, ss) ==
  /\ Len(FragOf(b).items) + Len(ss) <= MaxItems
  /\ Fluent("addItems", b, ss,
            [FragOf(b) EXCEPT !.itemsKind = "list", !.items = AddedItems(FragOf(b), ss)])

\* custom('items', false)
CustomItemsFalse(b) ==
  Fluent("custom", b, <<>>, [FragOf(b) EXCEPT !.itemsKind = "false", !.items = <<>>])

\* rest(def) on a Tuple builder: the class has no such member
TupleRest(b, d) == FluentThrows("rest", b, <<d>>)

\* required() on a Tuple builder sets unevaluatedItems, which the fragment
\* here does not carry
TupleRequired(b) == Fluent("required", b, <<>>, FragOf(b))

StrA == 1
NumA == 2
AnyA == 3
ArrA == 4
TupA == 5
\* the fragment `{}` the Array constructor makes when given no definition
NoDefinition == 4

TupleLiterals == {<<StrA>>, <<StrA, NumA>>, <<NumA, StrA>>}
LengthArgs == {-1, 0, 1}
ItemArgs == {<<NumA>>, <<StrA>>, <<AnyA>>, <<NumA, StrA>>}

\* string(), number(), any(), array(el) or array(), and tuple(defs)
InitArray ==
  /\ \E el \in {StrA, NumA, AnyA, NoDefinition}, defs \in TupleLiterals :
       /\ builders = <<Builder("string", 1, 0), Builder("number", 2, 0), Builder("any", 3, 0),
                       Builder("array", 5, 0), Builder("tuple", 6, 0)>>
       /\ frags = <<TypedFrag("string"), TypedFrag("number"), EmptyFrag, EmptyFrag,
                    ArrayFrag(el), TupleFrag(SchemasOf(defs))>>
  /\ propsHeap = <<>> /\ reqHeap = <<>> /\ defHeap = <<>>
  /\ compiled = [i \in 1..6 |-> NotCompiled]
  /\ last = NoCall /\ prev = NoCall /\ hist = NoHist

NextArray ==
  \/ \E n \in LengthArgs : MinLength(ArrA, n)
  \/ \E n \in LengthArgs : MaxLength(ArrA, n)
  \/ \E n \in LengthArgs : Length(ArrA, n)
  \/ \E ss \in ItemArgs : AddItems(ArrA, ss)
  \/ CustomItemsFalse(ArrA)
  \/ \E d \in {StrA, NumA} : TupleRest(TupA, d)
  \/ TupleRequired(TupA)

SpecArray == InitArray /\ [][NextArray]_vars

\* C16: minLength(n), maxLength(n) and length(n) each throw when n is
\* negative; for n >= 0, length(n) sets minItems and maxItems to n.
C16_LengthGuards ==
  hist.op \in {"minLength", "maxLength", "length"} =>
    /\ hist.args[1] < 0 => hist.threw
    /\ (hist.op = "length" /\ hist.args[1] >= 0) =>
         /\ ~hist.threw
         /\ FragOf(hist.recv).minItems = <<hist.args[1]>>
         /\ FragOf(hist.recv).maxItems = <<hist.args[1]>>

\* the schemas `items` held before a call, in order; none for a `false` sentinel
ItemsBefore(f) == IF f.itemsKind \in {"one", "list"} THEN f.items ELSE <<>>

\* C20: addItems(s1..sn) keeps every item schema already in `items`, in
\* order, and appends s1..sn: a single schema becomes the first entry, a
\* sequence is extended, and only a `false` sentinel is replaced.
C20_AddItemsKeeps ==
  hist.op = "addItems" =>
    /\ FragOf(hist.recv).itemsKind = "list"
    /\ FragOf(hist.recv).items = ItemsBefore(hist.before.frag) \o SchemasOf(hist.args)

\* C19: a Tuple builder's fragment lists the positional schemas in argument
\* order under prefixItems and has additionalItems false until rest(schema)
\* is called on it; rest(schema) succeeds and makes `schema` the schema of
\* the trailing elements.
C19_TupleClosedUntilRest ==
  /\ \E defs \in TupleLiterals : FragOf(TupA).prefixItems = SchemasOf(defs)
  /\ hist.op # "rest" => FragOf(TupA).addlItems = "false"
  /\ hist.op = "rest" =>
       /\ ~hist.threw
       /\ FragOf(TupA).itemsKind = "one"
       /\ FragOf(TupA).items = SchemasOf(hist.args)

\* the key names the fragment of builder b accepts
AcceptedNames(b) == {key \in Keys \cup Prims : Accepts(builders[b].schema, V(key))}

\* C18: keyof on an Object builder (method and function form) fails when
\* the definition map is empty, and otherwise returns a builder accepting
\* exactly the current property names.
C18_KeyofOfEmptyFails ==
  hist.op \in {"keyof", "keyofFn"} =>
    IF KeyNames(hist.before.def) = {} THEN hist.threw
    ELSE /\ ~hist.threw
         /\ AcceptedNames(hist.result) = KeyNames(hist.before.def)

(***************************************************************************)
(* Specification of merge: A = object({x: string()}) (3) merged with any   *)
(* builder, after fluent calls on the builders                             *)
(***************************************************************************)
InitMerge ==
  /\ builders = <<Builder("string", 1, 0), Builder("number", 2, 0),
                  Builder("object", 3, 1), Builder("object", 4, 2)>>
  /\ frags = <<TypedFrag("string"), TypedFrag("number"),
               [TypedFrag("object") EXCEPT !.props = 1],
               [TypedFrag("object") EXCEPT !.props = 2]>>
  /\ propsHeap = <<Def(1, 0), Def(0, 2)>>
  /\ defHeap = <<Def(StrB, 0), Def(0, NumB)>>
  /\ reqHeap = <<>>
  /\ compiled = [i \in 1..4 |-> NotCompiled]
  /\ last = NoCall /\ prev = NoCall /\ hist = NoHist

\* the builder given to merge is string() (1) or B = object({y: number()}) (4)
Others == {StrB, 4}

NextMerge ==
  \/ \E o \in Others : Merge(3, o)
  \/ \E b \in Others : Nullable(b)
  \/ \E b \in Others : Optional(b)
  \/ Strict(4)
  \/ Passthrough(4)
  \/ Partial(4)
  \/ \E key \in Keys : RequiredFor(4, key)

SpecMerge == InitMerge /\ [][NextMerge]_vars

\* C17: merge(other) throws exactly when `other` is not an Object builder,
\* whatever fluent calls were made on `other` before.
C17_MergeRejectsNonObjects ==
  hist.op = "merge" => (hist.threw <=> builders[hist.other].kind # "object")

\* C21: a refine function that throws and one that returns a defined value
\* are treated alike: safeParse returns a failure whose error has as its
\* cause the debug context (the input and the three stage results).
C21_RefineErrorsAlike ==
  (last.op = "safeParse" /\ ~last.threw /\ last.stage = "refine") =>
    /\ ~last.res.success
    /\ HasError(last.res)
    /\ last.res.error.cause = "debug"

(***************************************************************************)
(* Union, Intersection and Not builders, exclude, and create(ajv)          *)
(***************************************************************************)
MaxComposites == 1

\* new XSchemaBuilder(...): a builder of `kind` over the new fragment f,
\* made by the call op(args) on builder a
Composite(kind, f, op, a, args) ==
  /\ Len(builders) < MaxBuilders
  /\ frags' = Append(frags, f)
  /\ compiled' = Append(compiled, NotCompiled)
  /\ builders' = Append(builders, [Builder(kind, Len(frags) + 1, 0) EXCEPT !.origin = a])
  /\ hist' = [op |-> op, recv |-> a, result |-> Len(builders) + 1, threw |-> FALSE,
              before |-> View(a), arg |-> NoKeys, other |-> 0, args |-> args]
  /\ last' = NoCall /\ prev' = NoCall
  /\ UNCHANGED <<propsHeap, reqHeap, defHeap>>

\* new UnionSchemaBuilder(...schemas)
UnionFrag(ss) == [EmptyFrag EXCEPT !.anyOf = SchemasOf(ss)]

\* new IntersectionSchemaBuilder(...schemas)
IntersectionFrag(ss) == [EmptyFrag EXCEPT !.allOf = SchemasOf(ss)]

\* new NotSchemaBuilder(schema)
NotFrag(b) == [EmptyFrag EXCEPT !.not = builders[b].schema]

\* mutation: the receiver's fragment comes after the others
OrReceiverLast(b, others) == Composite("union", UnionFrag(others \o <<b>>), "or", b, others)

\* b.or(...others): or(this, ...others)
Or(b, others) == Composite("union", UnionFrag(<<b>> \o others), "or", b, others)

\* b.and(...others): and(this, ...others)
And(b, others) == Composite("intersection", IntersectionFrag(<<b>> \o others), "and", b, others)

\* b.not(): not(this)
Not(b) == Composite("not", NotFrag(b), "not", b, <<>>)

\* mutation: exclude replaces the receiver's fragment by {not: o's fragment}
ExcludeReplaces(b, o) ==
  /\ frags' = [frags EXCEPT ![builders[b].schema] = NotFrag(o)]
  /\ hist' = [op |-> "exclude", recv |-> b, result |-> b, threw |-> FALSE,
              before |-> View(b), arg |-> NoKeys, other |-> o, args |-> <<o>>]
  /\ last' = NoCall /\ prev' = NoCall
  /\ UNCHANGED <<builders, propsHeap, reqHeap, defHeap, compiled>>

\* b.exclude(o): this.schema.not = o.schema; return this
Exclude(b, o) ==
  /\ frags' = [frags EXCEPT ![builders[b].schema].not = builders[o].schema]
  /\ hist' = [op |-> "exclude", recv |-> b, result |-> b, threw |-> FALSE,
              before |-> View(b), arg |-> NoKeys, other |-> o, args |-> <<o>>]
  /\ last' = NoCall /\ prev' = NoCall
  /\ UNCHANGED <<builders, propsHeap, reqHeap, defHeap, compiled>>

\* injectAjv(ajv, fn)(...): `result.ajv = ajv` on the builder fn returns
InjectAjv(b) == [b EXCEPT !.ajv = "E"]

(***************************************************************************)
(* Specification of create(E): string() (1), number() (2) and              *)
(* A = object({x: string()}) (3) made by the constructors create(E)        *)
(* returns.  A fragment is compiled by the engine of the one builder that  *)
(* owns it, so one cache entry for each fragment is kept.                  *)
(***************************************************************************)
InitCreate ==
  /\ builders = <<InjectAjv(Builder("string", 1, 0)), InjectAjv(Builder("number", 2, 0)),
                  InjectAjv(Builder("object", 3, 1))>>
  /\ frags = <<TypedFrag("string"), TypedFrag("number"),
               [TypedFrag("object") EXCEPT !.props = 1]>>
  /\ propsHeap = <<Def(1, 0)>>
  /\ defHeap = <<Def(StrB, 0)>>
  /\ reqHeap = <<>>
  /\ compiled = [i \in 1..3 |-> NotCompiled]
  /\ last = NoCall /\ prev = NoCall /\ hist = NoHist

CreateInputs == {V("sa"), Obj("sa", "absent")}

\* one more builder may be derived
CanDerive == Len(builders) < 3 + MaxComposites

NextCreate ==
  \/ Nullable(StrB)
  \/ \E b \in 1..3 : CanDerive /\ Or(b, <<NumB>>)
  \/ \E b \in 1..3 : CanDerive /\ And(b, <<StrB>>)
  \/ \E b \in 1..3 : CanDerive /\ Not(b)
  \/ CanDerive /\ Pick(3, {"x"})
  \/ CanDerive /\ Omit(3, {"y"})
  \/ CanDerive /\ Extend(3, Def(0, NumB))
  \/ CanDerive /\ Merge(3, 3)
  \/ CanDerive /\ KeyofMethod(3)
  \/ \E b \in 3..Len(builders), x \in CreateInputs : SafeParse(b, x)

SpecCreate == InitCreate /\ [][NextCreate]_vars

\* C22: every builder made by the constructors of create(E), and every
\* builder derived from one through a fluent or structural method, has
\* engine E, and no parse on such a builder uses the default engine.
C22_TreeUsesEngine ==
  /\ \A b \in 1..Len(builders) : builders[b].ajv = "E"
  /\ last.op = "safeParse" => last.engine = "E"

(***************************************************************************)
(* Specification of composition: string() (1), number() (2), const('sa')   *)
(* (3) and A = object({x: string()}) (4), composed by or, and, not and     *)
(* exclude, with fluent calls on the first three afterwards.  The builder  *)
(* given to exclude is the constant.                                       *)
(***************************************************************************)
ConstC == 3
ObjC == 4

InitCompose ==
  /\ builders = <<Builder("string", 1, 0), Builder("number", 2, 0), Builder("const", 3, 0),
                  Builder("object", 4, 1)>>
  /\ frags = <<TypedFrag("string"), TypedFrag("number"), [EmptyFrag EXCEPT !.const = "sa"],
               [TypedFrag("object") EXCEPT !.props = 1]>>
  /\ propsHeap = <<Def(1, 0)>>
  /\ defHeap = <<Def(StrB, 0)>>
  /\ reqHeap = <<>>
  /\ compiled = [i \in 1..4 |-> NotCompiled]
  /\ last = NoCall /\ prev = NoCall /\ hist = NoHist

OtherArgs == {<<NumB>>, <<NumB, StrB>>}

CanCompose == Len(builders) < ObjC + MaxComposites

NextCompose ==
  \/ \E b \in 1..ObjC, os \in OtherArgs : CanCompose /\ Or(b, os)
  \/ \E b \in 1..ObjC, os \in OtherArgs : CanCompose /\ And(b, os)
  \/ \E b \in 1..ObjC : CanCompose /\ Not(b)
  \/ \E b \in {StrB} \cup (ObjC + 1..Len(builders)) : Exclude(b, ConstC)
  \/ \E b \in {StrB, ConstC} : Nullable(b)
  \/ Integer(NumB)

SpecCompose == InitCompose /\ [][NextCompose]_vars

\* C23: b.not() returns a new Not builder whose fragment is {not: b's
\* fragment} and leaves b's fragment as it was; b.exclude(o) returns b after
\* setting the `not` key of b's own fragment to o's fragment, changing no
\* other key of it and nothing of o.
C23_NotWrapsExcludeMutates ==
  [][ /\ (hist' # hist /\ hist'.op = "not") =>
           /\ hist'.result = Len(builders) + 1
           /\ Len(builders') = Len(builders) + 1
           /\ builders'[hist'.result].kind = "not"
           /\ frags'[builders'[hist'.result].schema] = NotFrag(hist'.recv)
           /\ builders'[hist'.recv] = builders[hist'.recv]
           /\ frags'[builders[hist'.recv].schema] = frags[builders[hist'.recv].schema]
      /\ (hist' # hist /\ hist'.op = "exclude") =>
           /\ hist'.result = hist'.recv
           /\ builders' = builders
           /\ frags'[builders[hist'.recv].schema] =
                [frags[builders[hist'.recv].schema] EXCEPT !.not = builders[hist'.other].schema]
           /\ frags'[builders[hist'.other].schema] = frags[builders[hist'.other].schema]
    ]_vars

C23_Witness ==
  /\ hist.op = "exclude"
  /\ hist.before.frag.type # <<>>
  /\ FragOf(hist.recv).not = builders[hist.other].schema
  /\ FragOf(hist.recv).type = hist.before.frag.type

\* C24: the fragment of a Union builder is exactly {anyOf: [children]} and
\* that of an Intersection builder exactly {allOf: [children]}; b.or(...os)
\* and b.and(...os) put b's fragment first and the others after it in call
\* order.
C24_ChildrenInOrder ==
  /\ hist.op = "or" =>
       /\ builders[hist.result].kind = "union"
       /\ FragOf(hist.result) =
            [EmptyFrag EXCEPT !.anyOf = <<builders[hist.recv].schema>> \o SchemasOf(hist.args)]
  /\ hist.op = "and" =>
       /\ builders[hist.result].kind = "intersection"
       /\ FragOf(hist.result) =
            [EmptyFrag EXCEPT !.allOf = <<builders[hist.recv].schema>> \o SchemasOf(hist.args)]

C24_Witness ==
  /\ hist.op = "or"
  /\ Len(hist.args) = 2
  /\ FragOf(hist.result).anyOf = <<builders[hist.recv].schema, NumB, StrB>>

\* the inputs the fragment of builder c accepts
Accepted(c) == {v \in Universe : Accepts(builders[c].schema, v)}

\* C28: a fluent call on a builder b changes the inputs accepted by no other
\* builder c: not by a composite built from b, nor by a builder b was given
\* to through exclude.
C28_OnlyOwnCalls ==
  [][ \A b \in 1..ConstC, c \in 1..Len(builders) :
        (c # b /\ (Nullable(b) \/ Integer(b))) => Accepted(c)' = Accepted(c) ]_vars

(***************************************************************************)
(* Specification of registration: the builders of the parse pipeline,      *)
(* given functions and a value that is not a function                      *)
(***************************************************************************)
\* a registration argument that is not callable: the number 5
NonFunctions == {"five"}

NextRegister ==
  \/ \E fn \in {"inc"} \cup NonFunctions : Preprocess(Outer, fn)
  \/ \E fn \in {"toStr"} \cup NonFunctions : Postprocess(Outer, fn, Target)
  \/ \E fn \in {"nonZero"} \cup NonFunctions : Refine(Outer, fn)
  \/ \E x \in Inputs : SafeParse(Outer, x)

SpecRegister == Init /\ [][NextRegister]_vars

\* all that safeParse reads: the builders with their function lists, the
\* fragments and what they refer to, and the engine's cache
ParseState == <<builders, frags, propsHeap, reqHeap, defHeap, compiled>>

\* C25: preprocess, postprocess and refine raise a TypeError when their
\* argument is not callable, and the rejected call leaves the builder's
\* function lists as they were, so that a later parse does what it would
\* have done without the call.
C25_RejectsNonFunctions ==
  [][ \A fn \in NonFunctions :
        (\/ Preprocess(Outer, fn)
         \/ Postprocess(Outer, fn, Target)
         \/ Refine(Outer, fn)) =>
          /\ last'.threw /\ last'.thrown.kind = "TypeError"
          /\ builders' = builders
          /\ ParseState' = ParseState ]_vars

C25_Witness ==
  /\ last.op = "refine" /\ last.threw
  /\ Len(builders[Outer].refineFns) >= 1

(***************************************************************************)
(* Specification of required(): A = object(def) (3) for a literal def over *)
(* string() (1) and number() (2), under the calls that write `required`    *)
(***************************************************************************)
NextRequired ==
  \/ Required(3)
  \/ \E key \in Keys : RequiredFor(3, key)
  \/ \E key \in Keys : PartialFor(3, key)
  \/ Partial(3)
  \/ Strict(3)
  \/ Passthrough(3)

SpecRequired == InitPick /\ [][NextRequired]_vars

\* C26: after required() the `required` array holds every property name
\* exactly once, also when requiredFor had added names before, and a second
\* required() right after the first leaves the array as the first left it.
C26_RequiredIdempotent ==
  hist.op = "required" =>
    /\ \A key \in KeyNames(propsHeap[FragOf(hist.recv).props]) :
         Count(RequiredOf(hist.recv), key) = 1
    /\ hist.args[1] = 2 => RequiredOf(hist.recv) = hist.before.required

C26_Witness ==
  /\ hist.op = "required" /\ hist.args[1] = 2
  /\ RequiredOf(hist.recv) = <<"y", "x">>

\* C27: every safeParse validates the value against the builder's current
\* fragment: the engine stage succeeds exactly when the fragment as it is at
\* the call compiles and accepts the value handed to the engine.
C27_NoStaleValidator ==
  (last.op = "safeParse" /\ ~last.threw /\ last.raw.keys # {}) =>
    (last.raw.success <=>
       /\ CompileOK(builders[last.b].schema)
       /\ Accepts(builders[last.b].schema, last.pre.data))

\* C29: after any sequence of length-bound calls that returned normally on
\* an Array builder, with non-negative arguments, the lower bound does not
\* exceed the upper bound: minItems <= maxItems.
C29_BoundsConsistent ==
  LET f == FragOf(ArrA)
  IN (f.minItems # <<>> /\ f.maxItems # <<>> /\ f.minItems[1] >= 0 /\ f.maxItems[1] >= 0)
       => f.minItems[1] <= f.maxItems[1]

\* C30: in the state a pick or omit call leaves, a property that was required
\* in the receiver and is kept in the returned builder is in the returned
\* builder's `required`, and the returned builder accepts no object that
\* lacks it.
C30_RequiredKept ==
  hist.op \in {"pick", "omit"} =>
    \A key \in SeqRange(hist.before.required) :
      hist.arg[key] # 0 =>
        /\ key \in SeqRange(RequiredOf(hist.result))
        /\ \A v \in Universe :
             (v.k = "obj" /\ v.o[key] = "absent") =>
               ~Accepts(builders[hist.result].schema, v)

====
